---- MODULE Spec2Model ----
(***************************************************************************)
(* Location-tracking session of the Tracking page.                         *)
(*                                                                         *)
(* Two versions of the page are in the repository: pages/Tracking.tsx      *)
(* (auth check, persistence of every sample) and unnamed/part_002 (no auth *)
(* check, no persistence).  `variant` selects the one being run.           *)
(*                                                                         *)
(* Every async function is cut at its awaits: one action per resumption.   *)
(* Invocations suspended at an await are kept in a bag (they carry no      *)
(* identity); what an invocation did is recorded when it returns.          *)
(* State updates issued in one resumption are committed together (React    *)
(* batches them), and the effect of line 205-212, keyed on [watchId], runs *)
(* its cleanup with the previous render's watchId whenever the committed   *)
(* watchId changes, and with the current one on unmount.                   *)
(***************************************************************************)
EXTENDS Integers, Sequences, FiniteSets, Bags, TLC

\* ---------------------------------------------------------------- bounds
\* button clicks and provider events over one run of the page
MaxInputs == 4

\* Rows in the table the recent-tracks query runs on.
MaxRows == 7

\* ------------------------------------------------------------- constants
NULL == 0

NoLocation == <<>>

Variants == {"Tracking", "part_002"}

Permissions == {"granted", "denied", "prompt"}

\* The fixes a provider may deliver, each with the environment read while
\* it is handled: new Date().getHours() and navigator.onLine.
SampleInputs ==
    { [latitude |-> 10, longitude |-> 20, hour |-> 7, onLine |-> TRUE],
      [latitude |-> 0, longitude |-> 20, hour |-> 22, onLine |-> FALSE] }

\* The inputs generateLocalInsight is exercised on: latitudes on both sides
\* of the equator and on it, every value getHours() returns.
Latitudes == {-10, -1, 0, 1, 10}

Hours == 0..23

\* The timestamps a row of location_tracks may carry; rows may share one.
Timestamps == 1..3

\* .limit(5) of the ['location-tracks'] query.
RecentLimit == 5

\* useQuery's data before the first successful load (undefined).
NoData == <<>>

VARIABLES
    variant,        \* which version of the page runs
    session,        \* auth collaborator: a current session exists
    hasGeolocation, \* 'geolocation' in navigator
    mounted,        \* the page is mounted
    route,          \* last navigate() target
    location,       \* useState location
    isTracking,     \* useState isTracking
    aiSuggestion,   \* useState aiSuggestion (sequence of clauses)
    watchId,        \* useState watchId
    watches,        \* every watch ever opened, indexed by handle
    started,        \* startTracking invocations so far
    starting,       \* bag of the startTracking invocations suspended at an await
    lastStart,      \* record of the startTracking invocation that returned last
    stopping,       \* bag of the stopTracking invocations suspended at their await
    lastStop,       \* record of the stopTracking invocation that returned last
    userStops,      \* stop button clicks so far
    cutIn,          \* a stop click or the unmount came while a start was suspended
    tracks,         \* saveTrack mutations
    insights,       \* samples handed to generateLocalInsight, in order, each
                    \* with the hour and connectivity the function read
    delivered,      \* fixes the providers passed to a sample callback, in order
    events,         \* provider events delivered so far
    fixErrorToasts, \* toasts raised by the browser error callback
    location_tracks,\* the rows of table location_tracks the user can read
    recentTracks    \* data of the ['location-tracks'] query

vars == <<variant, session, hasGeolocation, mounted, route, location,
          isTracking, aiSuggestion, watchId, watches, started, starting,
          lastStart, stopping, lastStop, userStops, cutIn, tracks, insights,
          delivered, events, fixErrorToasts, location_tracks, recentTracks>>

\* ------------------------------------------------------- InsightEngine
Baseline == "Drive safely and maintain proper distance from other vehicles. "
Night == "It's dark outside - ensure your headlights are on and be extra vigilant. "
MorningRush == "Morning rush hour - expect increased traffic. "
EveningRush == "Evening rush hour - stay alert for heavy traffic. "
Northern == "Driving in the Northern Hemisphere - watch for seasonal weather changes. "
Southern == "Driving in the Southern Hemisphere - watch for seasonal weather changes. "
Online == "You're connected - real-time traffic data is available. "
Offline == "You're offline - drive with extra caution as traffic data is unavailable. "

\* A night band that misses its two boundary hours.
TimeClauseOpenNight(timeOfDay) ==
    IF timeOfDay > 20 \/ timeOfDay < 5 THEN <<Night>>
    ELSE IF timeOfDay >= 6 /\ timeOfDay <= 9 THEN <<MorningRush>>
    ELSE IF timeOfDay >= 16 /\ timeOfDay <= 19 THEN <<EveningRush>>
    ELSE <<>>

TimeClause(timeOfDay) ==
    IF timeOfDay >= 20 \/ timeOfDay <= 5 THEN <<Night>>
    ELSE IF timeOfDay >= 6 /\ timeOfDay <= 9 THEN <<MorningRush>>
    ELSE IF timeOfDay >= 16 /\ timeOfDay <= 19 THEN <<EveningRush>>
    ELSE <<>>

\* An equator counted as northern.
HemisphereClauseEquatorNorth(latitude) ==
    IF latitude >= 0 THEN <<Northern>> ELSE <<Southern>>

HemisphereClause(latitude) ==
    IF latitude > 0 THEN <<Northern>> ELSE <<Southern>>

ConnectivityClause(onLine) ==
    IF onLine THEN <<Online>> ELSE <<Offline>>

\* An advisory that puts the hemisphere before the time of day.
generateLocalInsightHemisphereFirst(latitude, longitude, timeOfDay, onLine) ==
    <<Baseline>> \o HemisphereClause(latitude) \o TimeClause(timeOfDay)
                 \o ConnectivityClause(onLine)

\* the advisory string, as the sequence of the clauses it concatenates
generateLocalInsight(latitude, longitude, timeOfDay, onLine) ==
    <<Baseline>> \o TimeClause(timeOfDay) \o HemisphereClause(latitude)
                 \o ConnectivityClause(onLine)

\* --------------------------------------------------------------- toasts
AuthRequiredToast == [variant |-> "destructive", title |-> "Authentication Required"]
StartedToast == [variant |-> "default", title |-> "Tracking Started"]
StartFailedToast == [variant |-> "destructive", title |-> "Error"]
StoppedToast == [variant |-> "default", title |-> "Tracking Stopped"]

\* ------------------------------------------------------------- options
NativeOptions == [enableHighAccuracy |-> TRUE, timeout |-> 1000]

BrowserOptionsShortTimeout == [enableHighAccuracy |-> FALSE, timeout |-> 100]

BrowserOptions == [enableHighAccuracy |-> TRUE, timeout |-> 1000]

\* --------------------------------------------------------------- helpers
\* Button clicks and provider events taken so far.
Inputs == started + userStops + events

OpenWatches == {h \in 1..Len(watches) : watches[h].open}

One(e) == SetToBag({e})

Settled == starting = EmptyBag /\ stopping = EmptyBag

\* A startTracking invocation suspended at the await named pc; granted: the
\* permission result under which Geolocation.watchPosition was called.
AtAwait(pc, granted) == [pc |-> pc, granted |-> granted]

\* What a returned startTracking invocation did.  sess: what the auth
\* collaborator reported; permAsked: a permission call was made on the native
\* provider; nativeCalls, browserCalls: the options of the watch calls made
\* on each provider; granted: the permission result before the native watch
\* call; browserGranted: the same for the browser provider, on which the
\* code makes no permission call (lines 131-132); wid: the handle stored;
\* toasts: the notifications raised.
StartRecord(e, primaryFailed, browserCalls, wid, toasts) ==
    [done |-> TRUE, sess |-> session,
     permAsked |-> (e.pc # "getSession"),
     granted |-> e.granted,
     nativeCalls |-> (IF e.pc = "watchPosition" THEN {NativeOptions} ELSE {}),
     primaryFailed |-> primaryFailed,
     browserCalls |-> browserCalls, browserGranted |-> FALSE,
     wid |-> wid, toasts |-> toasts]

NoStart ==
    [done |-> FALSE, sess |-> FALSE, permAsked |-> FALSE, granted |-> FALSE,
     nativeCalls |-> {}, primaryFailed |-> FALSE, browserCalls |-> {},
     browserGranted |-> FALSE, wid |-> NULL, toasts |-> <<>>]

\* A stopTracking invocation suspended at `await Geolocation.clearWatch`,
\* with the watchId of the render it was created in; idle: the committed
\* state was Idle (no watchId, not tracking) when it was called.
AtClear(id, origin, idle) == [id |-> id, origin |-> origin, idle |-> idle]

\* What a returned stopTracking invocation did: the watchId it ran with,
\* who called it (the button or the effect cleanup), the notifications raised.
StopRecord(id, origin, idle) ==
    [done |-> TRUE, id |-> id, origin |-> origin, idle |-> idle,
     toasts |-> <<StoppedToast>>]

NoStop ==
    [done |-> FALSE, id |-> NULL, origin |-> "none", idle |-> FALSE,
     toasts |-> <<>>]

\* Geolocation.clearWatch({id}) is invoked: counted on the watch it owns.
NativeClearInvoked(ws, id) ==
    IF ws[id].prov = "native"
    THEN [ws EXCEPT ![id].stopCalls = @ + 1]
    ELSE ws

\* Commit of setWatchId(w): the [watchId] effect's cleanup runs with the
\* watchId of the previous render and calls that render's stopTracking,
\* which runs up to its first await.  setWatchId(null) is committed with
\* setIsTracking(false) (lines 196-197): the cleanup then runs in Idle.
CleanupRuns(w) == mounted /\ watchId # w /\ watchId # NULL

CleanupStops(w) ==
    IF CleanupRuns(w) THEN One(AtClear(watchId, "cleanup", w = NULL))
    ELSE EmptyBag

CleanupWatches(ws, w) ==
    IF CleanupRuns(w) THEN NativeClearInvoked(ws, watchId) ELSE ws

Init ==
    /\ variant \in Variants
    /\ session \in BOOLEAN
    /\ hasGeolocation \in BOOLEAN
    /\ mounted = TRUE
    /\ route = "/tracking"
    /\ location = NoLocation
    /\ isTracking = FALSE
    /\ aiSuggestion = <<>>
    /\ watchId = NULL
    /\ watches = <<>>
    /\ started = 0
    /\ starting = EmptyBag
    /\ lastStart = NoStart
    /\ stopping = EmptyBag
    /\ lastStop = NoStop
    /\ userStops = 0
    /\ cutIn = FALSE
    /\ tracks = <<>>
    /\ insights = <<>>
    /\ delivered = <<>>
    /\ events = 0
    /\ fixErrorToasts = 0
    /\ location_tracks = <<>>
    /\ recentTracks = NoData

\* ---------------------------------------------------------- startTracking
\* Button click while the button shows "Start Tracking" (line 235); the
\* invocation runs up to its first await.
StartClick ==
    /\ mounted
    /\ ~isTracking
    /\ Inputs < MaxInputs
    /\ started' = started + 1
    /\ starting' = starting (+)
           One(AtAwait(IF variant = "Tracking" THEN "getSession"
                       ELSE "checkPermissions", FALSE))
    /\ UNCHANGED <<variant, session, hasGeolocation, mounted, route, location,
                   isTracking, aiSuggestion, watchId, watches, lastStart,
                   stopping, lastStop, userStops, cutIn, tracks, insights, delivered, events,
                   fixErrorToasts,
                   location_tracks, recentTracks>>

\* A resumption that only moves its invocation to the next await.
Advance(e, f) ==
    /\ starting' = (starting (-) One(e)) (+) One(f)
    /\ UNCHANGED <<variant, session, hasGeolocation, mounted, route, location,
                   isTracking, aiSuggestion, watchId, watches, started,
                   lastStart, stopping, lastStop, userStops, cutIn, tracks, insights, delivered,
                   events, fixErrorToasts,
                   location_tracks, recentTracks>>

\* Lines 165-169: after the provider cascade, whatever its outcome.
\* setWatchId(w) (when a watch was acquired) and setIsTracking(true) are
\* committed together; no state is set once the page is unmounted.
FinishStart(e, primaryFailed, browserCalls, ws, w) ==
    /\ starting' = starting (-) One(e)
    /\ lastStart' = StartRecord(e, primaryFailed, browserCalls, w,
                                <<StartedToast>>)
    /\ IF mounted
       THEN /\ watchId' = (IF w # NULL THEN w ELSE watchId)
            /\ isTracking' = TRUE
       ELSE UNCHANGED <<watchId, isTracking>>
    /\ LET target == IF w # NULL THEN w ELSE watchId
       IN /\ watches' = CleanupWatches(ws, target)
          /\ stopping' = stopping (+) CleanupStops(target)
    /\ UNCHANGED <<variant, session, hasGeolocation, mounted, route, location,
                   aiSuggestion, started, lastStop, userStops, cutIn, tracks,
                   insights, delivered, events, fixErrorToasts,
                   location_tracks, recentTracks>>

\* An outer catch reached after 'Tracking Started' was already raised.
FailStartAfterStarted(e, primaryFailed, browserCalls) ==
    /\ starting' = starting (-) One(e)
    /\ lastStart' = StartRecord(e, primaryFailed, browserCalls, NULL,
                                <<StartedToast, StartFailedToast>>)
    /\ UNCHANGED <<variant, session, hasGeolocation, mounted, route, location,
                   isTracking, aiSuggestion, watchId, watches, started,
                   stopping, lastStop, userStops, cutIn, tracks, insights,
                   delivered, events, fixErrorToasts, location_tracks,
                   recentTracks>>

\* Lines 171-178: the outer catch.
FailStart(e, primaryFailed, browserCalls) ==
    /\ starting' = starting (-) One(e)
    /\ lastStart' = StartRecord(e, primaryFailed, browserCalls, NULL,
                                <<StartFailedToast>>)
    /\ UNCHANGED <<variant, session, hasGeolocation, mounted, route, location,
                   isTracking, aiSuggestion, watchId, watches, started,
                   stopping, lastStop, userStops, cutIn, tracks, insights, delivered, events,
                   fixErrorToasts,
                   location_tracks, recentTracks>>

\* Lines 128-163: the catch of the Capacitor attempt.  It runs in the same
\* resumption as the rejection that caused it.  navigator.geolocation
\* .watchPosition returns an id or throws.
Fallback(e) ==
    IF hasGeolocation
    THEN \/ FinishStart(e, TRUE, {BrowserOptions},
                        Append(watches, [prov |-> "browser", open |-> TRUE,
                                         stopCalls |-> 0]),
                        Len(watches) + 1)
         \/ FailStart(e, TRUE, {BrowserOptions})
    ELSE FinishStart(e, TRUE, {}, watches, NULL)

\* Lines 89-98: supabase.auth.getSession() settles.
AuthResume(e) ==
    /\ e.pc = "getSession"
    /\ \/ /\ session
          /\ Advance(e, AtAwait("checkPermissions", FALSE))
       \/ /\ ~session
          /\ starting' = starting (-) One(e)
          /\ lastStart' = StartRecord(e, FALSE, {}, NULL,
                                      <<AuthRequiredToast>>)
          /\ route' = "/login"
          /\ UNCHANGED <<variant, session, hasGeolocation, mounted, location,
                         isTracking, aiSuggestion, watchId, watches, started,
                         stopping, lastStop, userStops, cutIn, tracks, insights, delivered,
                         events, fixErrorToasts,
                   location_tracks, recentTracks>>
       \/ FailStart(e, FALSE, {})

\* Lines 102-105: Geolocation.checkPermissions() settles.
PermResume(e) ==
    /\ e.pc = "checkPermissions"
    /\ \/ Advance(e, AtAwait("watchPosition", TRUE))
       \/ \E p \in Permissions :
             /\ p # "granted"
             /\ Advance(e, AtAwait("requestPermissions", FALSE))
       \/ Fallback(e)

\* Line 104: Geolocation.requestPermissions() settles; its result is
\* dropped and Geolocation.watchPosition is called (line 107).
ReqResume(e) ==
    /\ e.pc = "requestPermissions"
    /\ \/ \E p \in Permissions :
             Advance(e, AtAwait("watchPosition", p = "granted"))
       \/ Fallback(e)

\* Lines 107-127: Geolocation.watchPosition() settles.  The platform opens
\* a watch only under a granted permission and rejects otherwise.
WatchResume(e) ==
    /\ e.pc = "watchPosition"
    /\ \/ /\ e.granted
          /\ FinishStart(e, FALSE, {},
                         Append(watches, [prov |-> "native", open |-> TRUE,
                                          stopCalls |-> 0]),
                         Len(watches) + 1)
       \/ Fallback(e)

\* ----------------------------------------------------------- stopTracking
\* Lines 196-202, with the cleanup their commit triggers.
FinishStop(e, ws) ==
    /\ stopping' = (stopping (-) One(e)) (+) CleanupStops(NULL)
    /\ lastStop' = StopRecord(e.id, e.origin, e.idle)
    /\ watches' = CleanupWatches(ws, NULL)
    /\ IF mounted
       THEN /\ watchId' = NULL
            /\ isTracking' = FALSE
            /\ aiSuggestion' = <<>>
       ELSE UNCHANGED <<watchId, isTracking, aiSuggestion>>
    /\ UNCHANGED <<variant, session, hasGeolocation, mounted, route, location,
                   started, starting, lastStart, userStops, cutIn, tracks, insights, delivered,
                   events, fixErrorToasts,
                   location_tracks, recentTracks>>

\* Button click while the button shows "Stop Tracking" (lines 181-186 and,
\* with no watchId, 196-202).
StopClick ==
    /\ mounted
    /\ isTracking
    /\ Inputs < MaxInputs
    /\ userStops' = userStops + 1
    /\ cutIn' = (cutIn \/ starting # EmptyBag)
    /\ IF watchId # NULL
       THEN /\ stopping' = stopping (+)
                   One(AtClear(watchId, "button", FALSE))
            /\ watches' = NativeClearInvoked(watches, watchId)
            /\ UNCHANGED <<watchId, isTracking, aiSuggestion, lastStop>>
       ELSE /\ lastStop' = StopRecord(NULL, "button", FALSE)
            /\ watchId' = NULL
            /\ isTracking' = FALSE
            /\ aiSuggestion' = <<>>
            /\ UNCHANGED <<watches, stopping>>
    /\ UNCHANGED <<variant, session, hasGeolocation, mounted, route, location,
                   started, starting, lastStart, tracks, insights, delivered, events,
                   fixErrorToasts,
                   location_tracks, recentTracks>>

\* Lines 186-190: Geolocation.clearWatch({id}) settles.  It closes the
\* native watch it is given; given anything else (a browser id, a handle
\* already closed) it either resolves without effect or rejects, and only
\* a rejection reaches navigator.geolocation.clearWatch.
StopResume(e) ==
    LET w == watches[e.id] IN
    \/ FinishStop(e, IF w.prov = "native"
                     THEN [watches EXCEPT ![e.id].open = FALSE]
                     ELSE watches)
    \/ /\ ~(w.prov = "native" /\ w.open)
       /\ FinishStop(e, IF w.prov = "browser"
                        THEN [watches EXCEPT ![e.id].open = FALSE,
                                             ![e.id].stopCalls = @ + 1]
                        ELSE watches)

\* Lines 205-212: the page leaves the screen; the effect's cleanup runs
\* with the current watchId.
Unmount ==
    /\ mounted
    /\ mounted' = FALSE
    /\ cutIn' = (cutIn \/ starting # EmptyBag)
    /\ IF watchId # NULL
       THEN /\ stopping' = stopping (+)
                   One(AtClear(watchId, "cleanup", ~isTracking))
            /\ watches' = NativeClearInvoked(watches, watchId)
       ELSE UNCHANGED <<stopping, watches>>
    /\ UNCHANGED <<variant, session, hasGeolocation, route, location,
                   isTracking, aiSuggestion, watchId, started, starting,
                   lastStart, lastStop, userStops, tracks, insights, delivered, events,
                   fixErrorToasts,
                   location_tracks, recentTracks>>

\* ------------------------------------------------------ provider events
\* The saveTrack mutations whose insert is still in flight, and those whose
\* insert failed.
PendingWrites == {k \in 1..Len(tracks) : tracks[k].status = "pending"}

FailedWrites == {k \in 1..Len(tracks) : tracks[k].status = "failed"}

\* A sample callback that waits for the earlier inserts before it takes the
\* next sample.
OnSampleAfterWrites(latitude, longitude, timeOfDay, onLine) ==
    /\ PendingWrites = {}
    /\ events' = events + 1
    /\ insights' = Append(insights,
                      [latitude |-> latitude, longitude |-> longitude,
                       hour |-> timeOfDay, onLine |-> onLine])
    /\ IF mounted
       THEN /\ location' = <<[latitude |-> latitude, longitude |-> longitude]>>
            /\ aiSuggestion' =
                  generateLocalInsight(latitude, longitude, timeOfDay, onLine)
       ELSE UNCHANGED <<location, aiSuggestion>>
    /\ tracks' = IF variant = "Tracking"
                 THEN Append(tracks, [latitude |-> latitude,
                                      longitude |-> longitude,
                                      status |-> "pending",
                                      reported |-> 0])
                 ELSE tracks
    /\ UNCHANGED <<variant, session, hasGeolocation, mounted, route,
                   isTracking, watchId, watches, started, starting, lastStart,
                   stopping, lastStop, userStops, cutIn, fixErrorToasts,
                   location_tracks, recentTracks>>

\* A sample callback that drops a sample equal to the one displayed.
OnSampleDistinct(latitude, longitude, timeOfDay, onLine) ==
    /\ events' = events + 1
    /\ IF location = <<[latitude |-> latitude, longitude |-> longitude]>>
       THEN UNCHANGED <<insights, location, aiSuggestion, tracks>>
       ELSE /\ insights' = Append(insights,
                              [latitude |-> latitude, longitude |-> longitude,
                               hour |-> timeOfDay, onLine |-> onLine])
            /\ IF mounted
               THEN /\ location' =
                          <<[latitude |-> latitude, longitude |-> longitude]>>
                    /\ aiSuggestion' = generateLocalInsight(
                                           latitude, longitude, timeOfDay, onLine)
               ELSE UNCHANGED <<location, aiSuggestion>>
            /\ tracks' = IF variant = "Tracking"
                         THEN Append(tracks, [latitude |-> latitude,
                                              longitude |-> longitude,
                                              status |-> "pending",
                                              reported |-> 0])
                         ELSE tracks
    /\ UNCHANGED <<variant, session, hasGeolocation, mounted, route,
                   isTracking, watchId, watches, started, starting, lastStart,
                   stopping, lastStop, userStops, cutIn, fixErrorToasts,
                   location_tracks, recentTracks>>

\* Lines 111-124 and 134-146: the body shared by both sample callbacks.
\* saveTrack exists only in pages/Tracking.tsx; it is not awaited.  Each
\* mutation carries the number of notifications raised for it (reported).
OnSample(latitude, longitude, timeOfDay, onLine) ==
    /\ events' = events + 1
    /\ insights' = Append(insights,
                      [latitude |-> latitude, longitude |-> longitude,
                       hour |-> timeOfDay, onLine |-> onLine])
    /\ IF mounted
       THEN /\ location' = <<[latitude |-> latitude, longitude |-> longitude]>>
            /\ aiSuggestion' =
                  generateLocalInsight(latitude, longitude, timeOfDay, onLine)
       ELSE UNCHANGED <<location, aiSuggestion>>
    /\ tracks' = IF variant = "Tracking"
                 THEN Append(tracks, [latitude |-> latitude,
                                      longitude |-> longitude,
                                      status |-> "pending",
                                      reported |-> 0])
                 ELSE tracks
    /\ UNCHANGED <<variant, session, hasGeolocation, mounted, route,
                   isTracking, watchId, watches, started, starting, lastStart,
                   stopping, lastStop, userStops, cutIn, fixErrorToasts,
                   location_tracks, recentTracks>>

\* Line 110: the native callback is called with a position.
NativeSample(h) ==
    /\ h \in OpenWatches
    /\ watches[h].prov = "native"
    /\ Inputs < MaxInputs
    /\ \E s \in SampleInputs :
          /\ delivered' = Append(delivered, [latitude |-> s.latitude,
                                             longitude |-> s.longitude])
          /\ OnSample(s.latitude, s.longitude, s.hour, s.onLine)

\* Lines 110-111: the native callback is called with no position (a fix
\* error); `if (position)` skips the body.
NativeFixError(h) ==
    /\ h \in OpenWatches
    /\ watches[h].prov = "native"
    /\ Inputs < MaxInputs
    /\ events' = events + 1
    /\ UNCHANGED <<variant, session, hasGeolocation, mounted, route, location,
                   isTracking, aiSuggestion, watchId, watches, started,
                   starting, lastStart, stopping, lastStop, userStops, cutIn, tracks,
                   insights, delivered, fixErrorToasts,
                   location_tracks, recentTracks>>

\* Line 133: the browser success callback.
BrowserSample(h) ==
    /\ h \in OpenWatches
    /\ watches[h].prov = "browser"
    /\ Inputs < MaxInputs
    /\ \E s \in SampleInputs :
          /\ delivered' = Append(delivered, [latitude |-> s.latitude,
                                             longitude |-> s.longitude])
          /\ OnSample(s.latitude, s.longitude, s.hour, s.onLine)

\* Lines 148-155: the browser error callback.
BrowserFixError(h) ==
    /\ h \in OpenWatches
    /\ watches[h].prov = "browser"
    /\ Inputs < MaxInputs
    /\ events' = events + 1
    /\ fixErrorToasts' = fixErrorToasts + 1
    /\ UNCHANGED <<variant, session, hasGeolocation, mounted, route, location,
                   isTracking, aiSuggestion, watchId, watches, started,
                   starting, lastStart, stopping, lastStop, userStops, cutIn, tracks,
                   insights, delivered,
                   location_tracks, recentTracks>>

\* A sink whose failure ends the session, as an onError handler calling
\* stopTracking's setters would.
TrackSettleStopsOnFailure(k) ==
    /\ tracks[k].status = "pending"
    /\ \E st \in {"ok", "failed"} :
          /\ tracks' = [tracks EXCEPT ![k].status = st]
          /\ isTracking' = (isTracking /\ st = "ok")
    /\ UNCHANGED <<variant, session, hasGeolocation, mounted, route, location,
                   aiSuggestion, watchId, watches, started,
                   starting, lastStart, stopping, lastStop, userStops, cutIn,
                   insights, delivered, events, fixErrorToasts,
                   location_tracks, recentTracks>>

\* Lines 45-52: the insert of a saveTrack mutation settles.  useMutation is
\* given no onError and saveTrack no callback: a failure raises nothing and
\* nothing is retried.
TrackSettle(k) ==
    /\ tracks[k].status = "pending"
    /\ \E st \in {"ok", "failed"} :
          tracks' = [tracks EXCEPT ![k].status = st]
    /\ UNCHANGED <<variant, session, hasGeolocation, mounted, route, location,
                   isTracking, aiSuggestion, watchId, watches, started,
                   starting, lastStart, stopping, lastStop, userStops, cutIn,
                   insights, delivered, events, fixErrorToasts,
                   location_tracks, recentTracks>>

Next ==
    \/ StartClick
    \/ \E e \in BagToSet(starting) : AuthResume(e)
    \/ \E e \in BagToSet(starting) : PermResume(e)
    \/ \E e \in BagToSet(starting) : ReqResume(e)
    \/ \E e \in BagToSet(starting) : WatchResume(e)
    \/ StopClick
    \/ \E e \in BagToSet(stopping) : StopResume(e)
    \/ Unmount
    \/ \E h \in 1..Len(watches) : NativeSample(h)
    \/ \E h \in 1..Len(watches) : NativeFixError(h)
    \/ \E h \in 1..Len(watches) : BrowserSample(h)
    \/ \E h \in 1..Len(watches) : BrowserFixError(h)
    \/ \E k \in 1..Len(tracks) : TrackSettle(k)

Spec == Init /\ [][Next]_vars

\* --------------------------------------------- generateLocalInsight alone
\* Lines 113-117: one call of generateLocalInsight on the coordinates of a
\* fix, at an hour and a connectivity of the environment; the result is
\* displayed.  insights keeps the one call made.
Insight(latitude, longitude, timeOfDay, onLine) ==
    /\ insights' = <<[latitude |-> latitude, longitude |-> longitude,
                      hour |-> timeOfDay, onLine |-> onLine]>>
    /\ aiSuggestion' =
          generateLocalInsight(latitude, longitude, timeOfDay, onLine)
    /\ UNCHANGED <<variant, session, hasGeolocation, mounted, route, location,
                   isTracking, watchId, watches, started, starting, lastStart,
                   stopping, lastStop, userStops, cutIn, tracks, delivered,
                   events, fixErrorToasts,
                   location_tracks, recentTracks>>

InsightNext ==
    \E latitude \in Latitudes, timeOfDay \in Hours, onLine \in BOOLEAN :
        Insight(latitude, 20, timeOfDay, onLine)

SpecInsight == Init /\ [][InsightNext]_vars

\* ------------------------------------------------- the recent-tracks query
\* The tables the query is exercised on: up to MaxRows rows, in the order
\* they were inserted, each with its id and the timestamp the table gave it.
Tables ==
    UNION { { [k \in 1..n |-> [id |-> k, timestamp |-> f[k]]] :
                f \in [1..n -> Timestamps] } : n \in 0..MaxRows }

Rows(table) == {table[k] : k \in DOMAIN table}

\* .order('timestamp', {ascending}).limit(n) on a set of rows: the rows are
\* taken one by one, each time one that comes first in the order among the
\* rows left, until n are taken or none is left.  The order among rows of
\* equal timestamp is the database's choice.
RECURSIVE OrderLimit(_, _, _)
OrderLimit(rows, ascending, n) ==
    IF n = 0 \/ rows = {} THEN {<<>>}
    ELSE LET first == {r \in rows : \A q \in rows :
                         IF ascending THEN r.timestamp <= q.timestamp
                                      ELSE r.timestamp >= q.timestamp}
         IN UNION { { <<r>> \o rest :
                        rest \in OrderLimit(rows \ {r}, ascending, n - 1) } :
                    r \in first }

\* The query of the map's history load (part_001 lines 42-45) in its order,
\* with the limit of the page.
queryFnAscending(table) == OrderLimit(Rows(table), TRUE, RecentLimit)

\* Lines 31-39: select('*').order('timestamp', {ascending: false}).limit(5),
\* with no error.
queryFn(table) == OrderLimit(Rows(table), FALSE, RecentLimit)

\* Lines 29-41: the query function of the page's first load resolves and
\* its result becomes recentTracks.  (On an error it throws and recentTracks
\* stays as it is; a refetch runs the same query again.)
LoadHistory ==
    /\ recentTracks = NoData
    /\ recentTracks' \in {<<data>> : data \in queryFn(location_tracks)}
    /\ UNCHANGED <<variant, session, hasGeolocation, mounted, route, location,
                   isTracking, aiSuggestion, watchId, watches, started,
                   starting, lastStart, stopping, lastStop, userStops, cutIn,
                   tracks, insights, delivered, events, fixErrorToasts,
                   location_tracks>>

\* The page pages/Tracking.tsx just mounted, over some table.
HistoryInit ==
    /\ variant = "Tracking"
    /\ session = TRUE
    /\ hasGeolocation = TRUE
    /\ mounted = TRUE
    /\ route = "/tracking"
    /\ location = NoLocation
    /\ isTracking = FALSE
    /\ aiSuggestion = <<>>
    /\ watchId = NULL
    /\ watches = <<>>
    /\ started = 0
    /\ starting = EmptyBag
    /\ lastStart = NoStart
    /\ stopping = EmptyBag
    /\ lastStop = NoStop
    /\ userStops = 0
    /\ cutIn = FALSE
    /\ tracks = <<>>
    /\ insights = <<>>
    /\ delivered = <<>>
    /\ events = 0
    /\ fixErrorToasts = 0
    /\ location_tracks \in Tables
    /\ recentTracks = NoData

HistoryNext == LoadHistory

SpecHistory == HistoryInit /\ [][HistoryNext]_vars

\* ================================================================ claims
NativeWatches == {h \in 1..Len(watches) : watches[h].prov = "native"}

BrowserWatches == {h \in 1..Len(watches) : watches[h].prov = "browser"}

\* The page under pages/Tracking.tsx is the one running.
OnTrackingPage == variant = "Tracking"

ErrorToasts(r) == {k \in 1..Len(r.toasts) : r.toasts[k].variant = "destructive"}

\* C1: in every reachable state of pages/Tracking.tsx a watch handle is held
\* (watchId is not null) if and only if the session is Active (isTracking).
C1_HandleIffActive == OnTrackingPage => ((watchId # NULL) <=> isTracking)

\* C2: on pages/Tracking.tsx at most one provider watch, native and browser
\* counted together, is open at any time.
C2_AtMostOneOpenWatch == OnTrackingPage => Cardinality(OpenWatches) <= 1

\* C3: on pages/Tracking.tsx, as long as stop() was never called and the page
\* is mounted, start() calls open at most one watch in total (a second
\* start() opens none), and once two calls have returned the session is
\* Active on that one watch.
C3_SecondStartOpensNothing ==
    (OnTrackingPage /\ userStops = 0 /\ mounted) =>
        /\ Len(watches) <= 1
        /\ (started >= 2 /\ Settled /\ Len(watches) = 1) =>
               (isTracking /\ watchId = 1 /\ watches[1].open)

\* C4: on pages/Tracking.tsx, if stop() or the unmount came while a start()
\* was still in flight, then once every invocation has returned no provider
\* watch is open.
C4_NoLeakAfterInterruptedStart ==
    (OnTrackingPage /\ cutIn /\ Settled) => OpenWatches = {}

\* C5: on pages/Tracking.tsx, with stop() clicked at most once, the
\* stop-watch operation of the owning provider is never invoked twice on a
\* handle, and a watch that is closed was stopped exactly once.
C5_StopWatchExactlyOnce ==
    (OnTrackingPage /\ userStops <= 1) =>
        \A h \in 1..Len(watches) :
            /\ watches[h].stopCalls <= 1
            /\ ~watches[h].open => watches[h].stopCalls = 1

\* C6: on pages/Tracking.tsx a start() in which the primary provider failed
\* and the secondary gave no watch (it failed, or is not available) reports
\* the failure exactly once, emits no 'Tracking Started', and leaves the
\* session Idle.
C6_BothFailEndsIdle ==
    (OnTrackingPage /\ lastStart.done /\ lastStart.primaryFailed
       /\ lastStart.wid = NULL) =>
        /\ lastStart.toasts = <<StartFailedToast>>
        /\ (started = 1 => ~isTracking)

C8_UnauthenticatedTouchesNoProvider ==
    ~session =>
        /\ \A e \in BagToSet(starting) : e.pc = "getSession"
        /\ lastStart.done =>
              /\ lastStart.toasts = <<AuthRequiredToast>>
              /\ ~lastStart.permAsked
              /\ lastStart.nativeCalls = {}
              /\ lastStart.browserCalls = {}
        /\ ~isTracking
        /\ watchId = NULL
        /\ watches = <<>>

\* C9: on pages/Tracking.tsx watch() is invoked on a provider only after a
\* permission check or request on that provider returned granted.
C9_WatchOnlyAfterGranted ==
    OnTrackingPage =>
        /\ \A e \in BagToSet(starting) : e.pc = "watchPosition" => e.granted
        /\ lastStart.done =>
              /\ lastStart.nativeCalls # {} => lastStart.granted
              /\ lastStart.browserCalls # {} => lastStart.browserGranted

\* C10: on pages/Tracking.tsx, once a stop() issued from the button has
\* returned, the watch whose handle it held is closed, on whichever provider
\* opened it.
C10_StopClosesOwnWatch ==
    (OnTrackingPage /\ lastStop.done /\ lastStop.origin = "button"
       /\ lastStop.id # NULL) =>
        ~watches[lastStop.id].open

\* C11: a stop() called while the session is Idle is a no-op: it makes no
\* stop-watch call on either provider (an invocation suspended at clearWatch
\* has made one, a returned one with a handle has made one) and leaves the
\* handle, the state and the advisory as they were.
C11_IdleStopIsNoOp ==
    OnTrackingPage =>
        /\ \A e \in BagToSet(stopping) : ~e.idle
        /\ (lastStop.done /\ lastStop.idle) =>
              /\ lastStop.id = NULL
              /\ watchId = NULL
              /\ ~isTracking
              /\ aiSuggestion = <<>>

\* C12: the step in which an insert of the sink fails changes neither the
\* session state nor the held handle nor any watch, and starts no stop():
\* the session stays as it was and its watch stays open.
C12_SinkFailureLeavesSession ==
    [][(\E k \in PendingWrites : tracks'[k].status = "failed") =>
          /\ isTracking' = isTracking
          /\ watchId' = watchId
          /\ watches' = watches
          /\ stopping' = stopping
          /\ aiSuggestion' = aiSuggestion]_vars

\* C12 witness: a write failed and a sample delivered after it was taken;
\* the session is still Active on its open watch.
C12_Witness ==
    /\ isTracking
    /\ watchId # NULL
    /\ watches[watchId].open
    /\ \E k \in FailedWrites : k < Len(tracks)
    /\ tracks[Len(tracks)].status = "pending"

\* C13: every insert of the sink that failed has been reported to the user
\* exactly once.
C13_FailedWriteReportedOnce ==
    \A k \in FailedWrites : tracks[k].reported = 1

\* The coordinates of a sample record.
Coords(s) == [latitude |-> s.latitude, longitude |-> s.longitude]

\* C14: an advisory is computed from a delivered sample iff that sample is
\* handed to the sink in the same event: the samples seen by the insight
\* engine and the samples handed to the sink are the same, one for one.
C14_AdvisoryIffSink ==
    /\ Len(tracks) = Len(insights)
    /\ \A k \in 1..Len(insights) : Coords(tracks[k]) = Coords(insights[k])

\* C15: a write that is still pending blocks nothing: while writes are
\* pending, every open watch can still deliver its next sample to the
\* callback, the user can still stop, and every stop() in flight can still
\* complete.
C15_PendingWriteBlocksNothing ==
    PendingWrites # {} =>
        /\ \A h \in OpenWatches :
              Inputs < MaxInputs => ENABLED (NativeSample(h) \/ BrowserSample(h))
        /\ (mounted /\ isTracking /\ Inputs < MaxInputs) => ENABLED StopClick
        /\ \A e \in BagToSet(stopping) : ENABLED StopResume(e)

\* C15 witness: the first write is still pending, a later sample was taken
\* (displayed, advised on and written) and a stop() from the button has
\* returned the session to Idle.
C15_Witness ==
    /\ 1 \in PendingWrites
    /\ Len(tracks) >= 2
    /\ location = <<Coords(tracks[Len(tracks)])>>
    /\ lastStop.done
    /\ lastStop.origin = "button"
    /\ ~isTracking
    /\ watchId = NULL

\* C16: every fix-acquisition error a provider reports on a watch is
\* surfaced as one error notification, on whichever provider the watch runs
\* (every provider event is a sample or a fix error).
C16_FixErrorSurfaced ==
    OnTrackingPage => fixErrorToasts = events - Len(insights)

\* The coordinates of the samples of a log, in its order.
CoordsOf(log) == [k \in 1..Len(log) |-> Coords(log[k])]

\* C17: on pages/Tracking.tsx samples are processed in the order delivered,
\* each once and unmodified: the sequence passed to the insight engine and
\* the sequence handed to the sink both equal the providers' delivery
\* sequence, and what the page displays is the most recently delivered
\* sample and, unless a stop() has cleared it, the advisory computed from it.
C17_SamplesInDeliveryOrder ==
    OnTrackingPage =>
    /\ CoordsOf(insights) = delivered
    /\ CoordsOf(tracks) = delivered
    /\ (mounted /\ delivered # <<>>) =>
          LET s == insights[Len(insights)] IN
          /\ location = <<delivered[Len(delivered)]>>
          /\ aiSuggestion # <<>> =>
                aiSuggestion = generateLocalInsight(s.latitude, s.longitude,
                                                    s.hour, s.onLine)

\* C17 witness: on pages/Tracking.tsx the same fix was delivered twice and
\* then a different one; all three were taken, and the page shows the last.
C17_Witness ==
    /\ OnTrackingPage
    /\ mounted
    /\ Len(delivered) = 3
    /\ delivered[1] = delivered[2]
    /\ delivered[2] # delivered[3]
    /\ CoordsOf(tracks) = delivered
    /\ location = <<delivered[3]>>
    /\ aiSuggestion # <<>>

\* The advisory displayed contains the clause c.
Has(c) == \E i \in 1..Len(aiSuggestion) : aiSuggestion[i] = c

\* The places of the advisory that hold a clause of the set cs.
Places(cs) == {i \in 1..Len(aiSuggestion) : aiSuggestion[i] \in cs}

\* C18: for every hour 0..23 the advisory holds at most one time-of-day
\* clause: the night clause iff the hour is in 20..23 or 0..5, the
\* morning-rush clause iff it is in 6..9, the evening-rush clause iff it is
\* in 16..19, and none for 10..15.
C18_TimeClauseByHour ==
    insights # <<>> =>
        LET h == insights[1].hour IN
        /\ Cardinality(Places({Night, MorningRush, EveningRush})) <= 1
        /\ Has(Night) <=> h \in (20..23) \cup (0..5)
        /\ Has(MorningRush) <=> h \in 6..9
        /\ Has(EveningRush) <=> h \in 16..19
        /\ h \in 10..15 => Places({Night, MorningRush, EveningRush}) = {}

\* C18 witness: the advisory computed at 20 o'clock, the first night hour,
\* holds the night clause.
C18_Witness ==
    /\ insights # <<>>
    /\ insights[1].hour = 20
    /\ Has(Night)

\* C19: the advisory holds exactly one hemisphere clause: the northern note
\* iff the latitude is above 0, else the southern note, also at latitude 0.
C19_HemisphereByLatitude ==
    insights # <<>> =>
        LET lat == insights[1].latitude IN
        /\ Cardinality(Places({Northern, Southern})) = 1
        /\ Has(Northern) <=> lat > 0
        /\ lat = 0 => Has(Southern)

\* C19 witness: the advisory computed on the equator holds the southern note.
C19_Witness ==
    /\ insights # <<>>
    /\ insights[1].latitude = 0
    /\ Has(Southern)

\* C20: the advisory is, in this order: the baseline clause, the time-of-day
\* clause if there is one, the hemisphere clause, the connectivity clause
\* (online note iff connected); latitude 10 at 7 o'clock while online gives
\* baseline, morning rush, northern, online.
C20_ClauseOrder ==
    insights # <<>> =>
        LET arg == insights[1]
            n == Len(aiSuggestion)
        IN
        /\ n = IF arg.hour \in 10..15 THEN 3 ELSE 4
        /\ aiSuggestion[1] = Baseline
        /\ n = 4 => aiSuggestion[2] \in {Night, MorningRush, EveningRush}
        /\ aiSuggestion[n - 1] \in {Northern, Southern}
        /\ aiSuggestion[n] = IF arg.onLine THEN Online ELSE Offline
        /\ (arg.latitude = 10 /\ arg.hour = 7 /\ arg.onLine) =>
              aiSuggestion = <<Baseline, MorningRush, Northern, Online>>

\* C20 witness: the advisory computed for latitude 10 at 7 o'clock while
\* online has its four clauses.
C20_Witness ==
    /\ insights # <<>>
    /\ insights[1].latitude = 10
    /\ insights[1].hour = 7
    /\ insights[1].onLine
    /\ Len(aiSuggestion) = 4

\* C21: the recent-tracks load returns min(5, n) of the n rows of the table,
\* none twice: rows with the latest timestamps (no row left out is later
\* than a row returned), most recent first; of 7 rows it returns 5.
C21_RecentFiveMostRecentFirst ==
    recentTracks # NoData =>
        LET r == recentTracks[1]
            n == Len(location_tracks)
            got == {r[i] : i \in 1..Len(r)}
        IN
        /\ Len(r) = IF n < 5 THEN n ELSE 5
        /\ Cardinality(got) = Len(r)
        /\ got \subseteq Rows(location_tracks)
        /\ \A x \in got, y \in Rows(location_tracks) \ got :
              x.timestamp >= y.timestamp
        /\ \A i \in 1..(Len(r) - 1) : r[i].timestamp >= r[i + 1].timestamp
        /\ n = 7 => Len(r) = 5

\* C21 witness: a load over 7 rows returned 5, the first later than the
\* last, and left out a row that is earlier than all it returned.
C21_Witness ==
    /\ recentTracks # NoData
    /\ Len(location_tracks) = 7
    /\ Len(recentTracks[1]) = 5
    /\ recentTracks[1][1].timestamp > recentTracks[1][5].timestamp
    /\ \E y \in Rows(location_tracks) :
          y.timestamp < recentTracks[1][5].timestamp

\* C22: every start() that has returned raised exactly one notification:
\* 'Authentication Required' (only when it found no session), 'Tracking
\* Started', or the start-failure error; never two, never none.
C22_OneOutcomeNotification ==
    lastStart.done =>
        /\ Len(lastStart.toasts) = 1
        /\ lastStart.toasts[1] \in
              {AuthRequiredToast, StartedToast, StartFailedToast}
        /\ lastStart.toasts[1] = AuthRequiredToast => ~session

\* C22 witness: one start() has ended with 'Tracking Started' and a later
\* one with the start-failure error.
C22_Witness ==
    /\ started = 2
    /\ isTracking
    /\ starting = EmptyBag
    /\ lastStart.done
    /\ lastStart.toasts = <<StartFailedToast>>

\* C23: on pages/Tracking.tsx, once every stop() called has returned and the
\* session is Idle with no start() under way, no step changes the advisory
\* or the displayed location or hands a sample to the sink.
C23_NoSampleAfterStop ==
    [][(OnTrackingPage /\ mounted /\ lastStop.done /\ ~isTracking
          /\ stopping = EmptyBag /\ starting = EmptyBag) =>
          /\ aiSuggestion' = aiSuggestion
          /\ location' = location
          /\ Len(tracks') = Len(tracks)]_vars

====
